---- MODULE Spec2Model ----
(***************************************************************************)
(* A model of the wordle players of tsergeant/playing_with_wordle:         *)
(* wordle1.py, wordle1stats.py, wordle3stats.py, wordle4stats.py and       *)
(* wstats.py.  Characters are modelled by their code points (ord), words   *)
(* and grade strings by sequences of code points.  Python's 0-based        *)
(* positions 0..4 are the 1-based positions 1..5 here.                     *)
(***************************************************************************)
EXTENDS Integers, Sequences, FiniteSets, TLC

VARIABLES
    prog,        \* which script is running
    pc,          \* the position of the script
    dictfile,    \* the contents of dictionary.txt
    samplelist,  \* samplelist of wstats.py (the words of pass4.top20.txt)
    origlist,    \* origlist (wordle1stats, wordle3stats, wordle4stats)
    wordlist,    \* the module-level wordlist: the candidate list
    ai,          \* how many words the loop "for answer in ..." has taken
    gi,          \* how many words the loop "for guess in samplelist" has taken
    answer,      \* the module-level answer
    guess,       \* the module-level guess
    result,      \* the module-level result
    count,       \* the module-level count
    total,       \* the module-level total
    possible_letters,  \* the module-level possible_letters
    lst,         \* the module-level lst of wstats.py
    excluded,    \* history: the words reduce_word_list has dropped in this game
    word,        \* the word handed to is_possible (function specification)
    out          \* the value is_possible returned (function specification)

vars == <<prog, pc, dictfile, samplelist, origlist, wordlist, ai, gi, answer, guess,
          result, count, total, possible_letters, lst, excluded, word, out>>

----------------------------------------------------------------------------
(* Bounds of the model                                                     *)

\* how many letters of the alphabet the enumerated words are written in
NumLetters == 2

\* the length of every word: the grade of a full match is the literal '22222'
WordLen == 5

----------------------------------------------------------------------------
(* Characters and strings                                                  *)

Alphabet == <<"a","b","c","d","e","f","g","h","i","j","k","l","m",
              "n","o","p","q","r","s","t","u","v","w","x","y","z">>

\* ord(c): the code point of a character
ord(c) ==
    CASE c = "!" -> 33
      [] c = "*" -> 42
      [] c = "1" -> 49
      [] c = "2" -> 50
      [] c = "@" -> 64
      [] OTHER   -> 96 + (CHOOSE i \in 1..26 : Alphabet[i] = c)

\* list(s): the list of the characters of a string
list(s) == [i \in 1..Len(s) |-> ord(s[i])]

\* a five-letter word written letter by letter
W(a, b, c, d, e) == list(<<a, b, c, d, e>>)

\* x in xs, for a list xs
In(x, xs) == \E k \in 1..Len(xs) : xs[k] = x

\* a full match spelled one character short
FullMatchShort == list(<<"2","2","2","2">>)

\* the grade string of a full match
FullMatch == list(<<"2","2","2","2","2">>)

\* no result yet
NoResult == [guess |-> <<>>, grade |-> <<>>]

\* [True] * 26
AllPossible == [k \in 0..25 |-> TRUE]

\* the variables only the scripts use
gamevars == <<dictfile, samplelist, origlist, wordlist, ai, gi, count, total,
              possible_letters, lst, excluded>>

----------------------------------------------------------------------------
(* grade_word                                                              *)

\* grade_exact with the loop one position short
RECURSIVE grade_exact_short(_, _, _)
grade_exact_short(answerlist, guesslist, i) ==
    IF i >= Len(answerlist)
    THEN [answerlist |-> answerlist, guesslist |-> guesslist]
    ELSE IF answerlist[i] = guesslist[i]
         THEN grade_exact_short([answerlist EXCEPT ![i] = 0],
                                [guesslist EXCEPT ![i] = ord("2")], i + 1)
         ELSE grade_exact_short(answerlist, guesslist, i + 1)

\* first loop of grade_word: the exact matches
RECURSIVE grade_exact(_, _, _)
grade_exact(answerlist, guesslist, i) ==
    IF i > Len(answerlist)
    THEN [answerlist |-> answerlist, guesslist |-> guesslist]
    ELSE IF answerlist[i] = guesslist[i]
         THEN grade_exact([answerlist EXCEPT ![i] = 0],
                          [guesslist EXCEPT ![i] = ord("2")], i + 1)
         ELSE grade_exact(answerlist, guesslist, i + 1)

\* grade_present without the blanking of the matched answer position
RECURSIVE grade_present_keep(_, _, _, _)
grade_present_keep(answerlist, guesslist, i, j) ==
    IF i > Len(answerlist) THEN guesslist
    ELSE IF j > Len(answerlist) THEN grade_present_keep(answerlist, guesslist, i + 1, 1)
    ELSE IF answerlist[i] = guesslist[j]
         THEN grade_present_keep(answerlist,
                                 [guesslist EXCEPT ![j] = ord("1")], i, j + 1)
         ELSE grade_present_keep(answerlist, guesslist, i, j + 1)

\* grade_present scanning the guess from its last position to its first
RECURSIVE grade_present_right(_, _, _, _)
grade_present_right(answerlist, guesslist, i, j) ==
    IF i > Len(answerlist) THEN guesslist
    ELSE IF j > Len(answerlist) THEN grade_present_right(answerlist, guesslist, i + 1, 1)
    ELSE IF answerlist[i] = guesslist[Len(answerlist) + 1 - j]
         THEN grade_present_right([answerlist EXCEPT ![i] = 0],
                  [guesslist EXCEPT ![Len(answerlist) + 1 - j] = ord("1")], i, j + 1)
         ELSE grade_present_right(answerlist, guesslist, i, j + 1)

\* second loop of grade_word: for every answer position i and every guess
\* position j (no break), a match marks the guess position '1' and blanks
\* the answer position
RECURSIVE grade_present(_, _, _, _)
grade_present(answerlist, guesslist, i, j) ==
    IF i > Len(answerlist) THEN guesslist
    ELSE IF j > Len(answerlist) THEN grade_present(answerlist, guesslist, i + 1, 1)
    ELSE IF answerlist[i] = guesslist[j]
         THEN grade_present([answerlist EXCEPT ![i] = 0],
                            [guesslist EXCEPT ![j] = ord("1")], i, j + 1)
         ELSE grade_present(answerlist, guesslist, i, j + 1)

\* grade_word(answer, guess) of wordle1stats.py
grade_word(ans, gss) ==
    LET e == grade_exact(ans, gss, 1)
    IN  [guess |-> gss, grade |-> grade_present(e.answerlist, e.guesslist, 1, 1)]

----------------------------------------------------------------------------
(* is_possible                                                             *)

\* possible_exact leaving the matched letter of the word in place
RECURSIVE possible_exact_keep(_, _, _, _, _)
possible_exact_keep(w, gradelist, guesslist, wlist, i) ==
    IF i > Len(w)
    THEN [ok |-> TRUE, guesslist |-> guesslist, wordlist |-> wlist]
    ELSE IF gradelist[i] = ord("2")
         THEN IF guesslist[i] # w[i]
              THEN [ok |-> FALSE, guesslist |-> guesslist, wordlist |-> wlist]
              ELSE possible_exact_keep(w, gradelist,
                                       [guesslist EXCEPT ![i] = ord("@")], wlist, i + 1)
         ELSE possible_exact_keep(w, gradelist, guesslist, wlist, i + 1)

\* first loop of is_possible: the '2' positions
RECURSIVE possible_exact(_, _, _, _, _)
possible_exact(w, gradelist, guesslist, wlist, i) ==
    IF i > Len(w)
    THEN [ok |-> TRUE, guesslist |-> guesslist, wordlist |-> wlist]
    ELSE IF gradelist[i] = ord("2")
         THEN IF guesslist[i] # w[i]
              THEN [ok |-> FALSE, guesslist |-> guesslist, wordlist |-> wlist]
              ELSE possible_exact(w, gradelist,
                                  [guesslist EXCEPT ![i] = ord("@")],
                                  [wlist EXCEPT ![i] = ord("!")], i + 1)
         ELSE possible_exact(w, gradelist, guesslist, wlist, i + 1)

\* the inner loop over j with its break: the first position of wlist holding c
first_match(c, wlist) == CHOOSE j \in 1..Len(wlist) :
    wlist[j] = c /\ \A k \in 1..(j - 1) : wlist[k] # c

\* possible_present with no test at the positions that are not '1'
RECURSIVE possible_present_noabsent(_, _, _, _, _)
possible_present_noabsent(w, gradelist, guesslist, wlist, i) ==
    IF i > Len(w) THEN TRUE
    ELSE IF gradelist[i] = ord("1")
         THEN IF guesslist[i] = wlist[i] THEN FALSE
              ELSE IF ~In(guesslist[i], wlist) THEN FALSE
              ELSE possible_present_noabsent(w, gradelist,
                       [guesslist EXCEPT ![i] = ord("@")],
                       [wlist EXCEPT ![first_match(guesslist[i], wlist)] = ord("!")],
                       i + 1)
         ELSE possible_present_noabsent(w, gradelist, guesslist, wlist, i + 1)

\* possible_present without the test of the same position at a '1'
RECURSIVE possible_present_anywhere(_, _, _, _, _)
possible_present_anywhere(w, gradelist, guesslist, wlist, i) ==
    IF i > Len(w) THEN TRUE
    ELSE IF gradelist[i] = ord("1")
         THEN IF ~In(guesslist[i], wlist) THEN FALSE
              ELSE possible_present_anywhere(w, gradelist,
                       [guesslist EXCEPT ![i] = ord("@")],
                       [wlist EXCEPT ![first_match(guesslist[i], wlist)] = ord("!")],
                       i + 1)
         ELSE IF gradelist[i] # ord("*")
              THEN IF In(guesslist[i], wlist) THEN FALSE
                   ELSE possible_present_anywhere(w, gradelist, guesslist, wlist, i + 1)
              ELSE possible_present_anywhere(w, gradelist, guesslist, wlist, i + 1)

\* possible_present testing an absent letter against the whole word instead
\* of the letters not yet matched
RECURSIVE possible_present_whole(_, _, _, _, _)
possible_present_whole(w, gradelist, guesslist, wlist, i) ==
    IF i > Len(w) THEN TRUE
    ELSE IF gradelist[i] = ord("1")
         THEN IF guesslist[i] = wlist[i] THEN FALSE
              ELSE IF ~In(guesslist[i], wlist) THEN FALSE
              ELSE possible_present_whole(w, gradelist,
                       [guesslist EXCEPT ![i] = ord("@")],
                       [wlist EXCEPT ![first_match(guesslist[i], wlist)] = ord("!")],
                       i + 1)
         ELSE IF gradelist[i] # ord("*")
              THEN IF In(guesslist[i], w) THEN FALSE
                   ELSE possible_present_whole(w, gradelist, guesslist, wlist, i + 1)
              ELSE possible_present_whole(w, gradelist, guesslist, wlist, i + 1)

\* possible_present without the test that the letter is in the word at all
RECURSIVE possible_present_lax(_, _, _, _, _)
possible_present_lax(w, gradelist, guesslist, wlist, i) ==
    IF i > Len(w) THEN TRUE
    ELSE IF gradelist[i] = ord("1")
         THEN IF guesslist[i] = wlist[i] THEN FALSE
              ELSE IF ~In(guesslist[i], wlist)
                   THEN possible_present_lax(w, gradelist, guesslist, wlist, i + 1)
              ELSE possible_present_lax(w, gradelist,
                       [guesslist EXCEPT ![i] = ord("@")],
                       [wlist EXCEPT ![first_match(guesslist[i], wlist)] = ord("!")],
                       i + 1)
         ELSE IF gradelist[i] # ord("*")
              THEN IF In(guesslist[i], wlist) THEN FALSE
                   ELSE possible_present_lax(w, gradelist, guesslist, wlist, i + 1)
              ELSE possible_present_lax(w, gradelist, guesslist, wlist, i + 1)

\* second loop of is_possible: the '1' positions and the other positions
RECURSIVE possible_present(_, _, _, _, _)
possible_present(w, gradelist, guesslist, wlist, i) ==
    IF i > Len(w) THEN TRUE
    ELSE IF gradelist[i] = ord("1")
         THEN IF guesslist[i] = wlist[i] THEN FALSE
              ELSE IF ~In(guesslist[i], wlist) THEN FALSE
              ELSE possible_present(w, gradelist,
                       [guesslist EXCEPT ![i] = ord("@")],
                       [wlist EXCEPT ![first_match(guesslist[i], wlist)] = ord("!")],
                       i + 1)
         ELSE IF gradelist[i] # ord("*")
              THEN IF In(guesslist[i], wlist) THEN FALSE
                   ELSE possible_present(w, gradelist, guesslist, wlist, i + 1)
              ELSE possible_present(w, gradelist, guesslist, wlist, i + 1)

\* is_possible(word, result); g is the module-level variable guess, which
\* the last line of the function reads
is_possible(w, res, g) ==
    LET e == possible_exact(w, res.grade, res.guess, w, 1)
    IN  IF ~e.ok THEN FALSE
        ELSE IF ~possible_present(w, res.grade, e.guesslist, e.wordlist, 1) THEN FALSE
        ELSE w # g

----------------------------------------------------------------------------
(* The function specification: grade_word and is_possible applied to every *)
(* answer, guess and candidate word over the first NumLetters letters      *)

Letters == {ord(Alphabet[k]) : k \in 1..NumLetters}

\* the words of the spec's duplicate-letter scenario
abbey == W("a","b","b","e","y")
bbbbb == W("b","b","b","b","b")

FnWords == [1..WordLen -> Letters] \cup {abbey, bbbbb}

FnInit ==
    /\ prog = "fn"
    /\ pc = "fn_start"
    /\ dictfile = <<>>
    /\ samplelist = <<>>
    /\ origlist = <<>>
    /\ wordlist = <<>>
    /\ ai = 0
    /\ gi = 0
    /\ total = 0
    /\ possible_letters = AllPossible
    /\ lst = <<>>
    /\ excluded = {}
    /\ answer \in FnWords
    /\ guess \in FnWords
    /\ word = <<>>
    /\ result = NoResult
    /\ count = 0
    /\ out = FALSE

\* result = grade_word(answer, guess)
FnGrade ==
    /\ pc = "fn_start"
    /\ result' = grade_word(answer, guess)
    /\ pc' = "fn_graded"
    /\ UNCHANGED <<prog, answer, guess, word, out>>
    /\ UNCHANGED gamevars

\* is_possible(word, result), called while the module holds guess
FnCheck ==
    /\ pc = "fn_graded"
    /\ \E w \in FnWords :
          /\ word' = w
          /\ out' = is_possible(w, result, guess)
    /\ pc' = "fn_checked"
    /\ UNCHANGED <<prog, answer, guess, result>>
    /\ UNCHANGED gamevars

FnNext == FnGrade \/ FnCheck

SpecFn == FnInit /\ [][FnNext]_vars

\* grade_word alone, applied to every answer and guess
SpecGrade == FnInit /\ [][FnGrade]_vars

----------------------------------------------------------------------------
(* Helpers of the scripts                                                  *)

\* reduce_word_list(wordlist, result): the list comprehension, which builds
\* a new list from the words is_possible accepts; g is the module-level guess
RECURSIVE reduce_from(_, _, _, _, _)
reduce_from(wlist, res, g, k, newwordlist) ==
    IF k > Len(wlist) THEN newwordlist
    ELSE reduce_from(wlist, res, g, k + 1,
             IF is_possible(wlist[k], res, g)
             THEN Append(newwordlist, wlist[k]) ELSE newwordlist)

\* reduce_word_list filtering the dictionary instead of the list it is given
reduce_word_list_all(wlist, res, g) == reduce_from(dictfile, res, g, 1, <<>>)

\* reduce_word_list building its list back to front
RECURSIVE reduce_word_list_back(_, _, _)
reduce_word_list_back(wlist, res, g) ==
    IF wlist = <<>> THEN <<>>
    ELSE reduce_word_list_back(Tail(wlist), res, g)
         \o (IF is_possible(Head(wlist), res, g) THEN <<Head(wlist)>> ELSE <<>>)

reduce_word_list(wlist, res, g) == reduce_from(wlist, res, g, 1, <<>>)

\* load_dictionary(filename): the words of the file as a list and as a hash
load_dictionary(file) ==
    [wordlist |-> file, wordhash |-> {file[k] : k \in 1..Len(file)}]

\* the value of a call that raised: grade_word's "return false" names an
\* undefined variable, and random.randint(0, -1) raises ValueError
Raised(e) == [error |-> e]
IsRaised(res) == "error" \in DOMAIN res

\* grade_word(answer, guess, wordhash) of wordle1.py and wstats.py
grade_word_hash(ans, gss, wordhash) ==
    IF gss \notin wordhash THEN Raised("NameError") ELSE grade_word(ans, gss)

\* get_next_guess drawing from the whole dictionary
get_next_guess_any(wlist) == {dictfile[k] : k \in 1..Len(dictfile)}

\* the words get_next_guess / get_random_guess may return: any word of the list
get_next_guess(wlist) == {wlist[k] : k \in 1..Len(wlist)}

\* the words reduce_word_list dropped
Dropped(before, after) ==
    {before[k] : k \in 1..Len(before)} \ {after[k] : k \in 1..Len(after)}

----------------------------------------------------------------------------
(* The dictionaries                                                        *)

\* how many words a dictionary file holds at most
MaxDict == 4

\* how many words the sample file of wstats.py holds at most
MaxSample == 2

lares == W("l","a","r","e","s")
crane == W("c","r","a","n","e")
trace == W("t","r","a","c","e")
crone == W("c","r","o","n","e")
brace == W("b","r","a","c","e")
cakes == W("c","a","k","e","s")
compt == W("c","o","m","p","t")
arena == W("a","r","e","n","a")

\* the words the dictionary files are made of, in file order
Pool == <<lares, crane, trace, crone, brace, cakes, compt, abbey, arena>>

\* the sub-lists of Pool with 1..n words
RECURSIVE SubLists(_, _)
SubLists(k, n) ==
    IF k > Len(Pool) THEN {<<>>}
    ELSE LET rest == SubLists(k + 1, n)
         IN  rest \cup {<<Pool[k]>> \o r : r \in {x \in rest : Len(x) < n}}

Dictionaries == SubLists(1, MaxDict) \ {<<>>}
Samples == SubLists(1, MaxSample) \ {<<>>}

----------------------------------------------------------------------------
(* wordle1.py and wordle1stats.py: random guessing                         *)

fnvars == <<word, out>>

\* wordle1.py lines 174-178: the dictionary is loaded, the answer drawn
InitWordle1 ==
    /\ prog = "wordle1"
    /\ dictfile \in Dictionaries
    /\ samplelist = <<>>
    /\ origlist = <<>>
    /\ wordlist = load_dictionary(dictfile).wordlist
    /\ answer \in get_next_guess(wordlist)
    /\ ai = 0 /\ gi = 0 /\ count = 0 /\ total = 0
    /\ guess = <<>>
    /\ result = NoResult
    /\ possible_letters = AllPossible
    /\ lst = <<>>
    /\ excluded = {}
    /\ word = <<>> /\ out = FALSE
    /\ pc = "loop"

\* wordle1stats.py lines 134-137
InitWordle1Stats ==
    /\ prog = "wordle1stats"
    /\ dictfile \in Dictionaries
    /\ samplelist = <<>>
    /\ origlist = load_dictionary(dictfile).wordlist
    /\ wordlist = <<>>
    /\ answer = <<>>
    /\ ai = 0 /\ gi = 0 /\ count = 0 /\ total = 0
    /\ guess = <<>>
    /\ result = NoResult
    /\ possible_letters = AllPossible
    /\ lst = <<>>
    /\ excluded = {}
    /\ word = <<>> /\ out = FALSE
    /\ pc = "for"

\* wordle1stats.py lines 138-140: the next answer, a freshly loaded list
StatsNextAnswer ==
    /\ prog = "wordle1stats" /\ pc = "for"
    /\ ai < Len(origlist)
    /\ ai' = ai + 1
    /\ answer' = origlist[ai + 1]
    /\ wordlist' = load_dictionary(dictfile).wordlist
    /\ count' = 0
    /\ excluded' = {}
    /\ pc' = "loop"
    /\ UNCHANGED <<prog, dictfile, samplelist, origlist, gi, guess, result, total,
                   possible_letters, lst, fnvars>>

\* wordle1.py lines 180-184, wordle1stats.py lines 142-144: a guess is drawn
\* from the candidate list and graded
RandomGuess ==
    /\ prog \in {"wordle1", "wordle1stats"} /\ pc = "loop"
    /\ count' = count + 1
    /\ IF wordlist = <<>>
       THEN /\ pc' = "error"
            /\ UNCHANGED <<guess, result>>
       ELSE /\ \E g \in get_next_guess(wordlist) :
                 /\ guess' = g
                 /\ result' = IF prog = "wordle1"
                              THEN grade_word_hash(answer, g,
                                       load_dictionary(dictfile).wordhash)
                              ELSE grade_word(answer, g)
            /\ pc' = "test"
    /\ UNCHANGED <<prog, dictfile, samplelist, origlist, wordlist, ai, gi, answer, total,
                   possible_letters, lst, excluded, fnvars>>

\* wordle1.py lines 185-186, wordle1stats.py lines 145-149: the grade is
\* '22222', the loop is left
Break ==
    /\ prog \in {"wordle1", "wordle1stats"} /\ pc = "test"
    /\ result.grade = FullMatch
    /\ IF prog = "wordle1"
       THEN pc' = "done" /\ total' = total
       ELSE pc' = "for" /\ total' = total + count
    /\ UNCHANGED <<prog, dictfile, samplelist, origlist, wordlist, ai, gi, answer, guess,
                   result, count, possible_letters, lst, excluded, fnvars>>

\* wordle1.py line 187, wordle1stats.py line 147: the list is reduced
Reduce ==
    /\ prog \in {"wordle1", "wordle1stats"} /\ pc = "test"
    /\ result.grade # FullMatch
    /\ wordlist' = reduce_word_list(wordlist, result, guess)
    /\ excluded' = excluded \cup Dropped(wordlist, wordlist')
    /\ pc' = "loop"
    /\ UNCHANGED <<prog, dictfile, samplelist, origlist, ai, gi, answer, guess, result,
                   count, total, possible_letters, lst, fnvars>>

----------------------------------------------------------------------------
(* wordle3stats.py and wordle4stats.py: the strategies                     *)

\* the last loop of grade_word (wordle3stats.py lines 178-180): it runs
\* once per letter of the guess but reads guesslist[j], j being what the
\* loop before it left in j
RECURSIVE mark_letters(_, _, _, _, _)
mark_letters(guesslist, pl, j, i, n) ==
    IF i > n THEN pl
    ELSE mark_letters(guesslist,
             IF guesslist[j] > ord("2")
             THEN [pl EXCEPT ![guesslist[j] - 97] = FALSE] ELSE pl,
             j, i + 1, n)

\* grade_word(answer, guess, wordhash, possible_letters)
grade_word_letters(ans, gss, wordhash, pl) ==
    IF gss \notin wordhash THEN Raised("NameError")
    ELSE LET e  == grade_exact(ans, gss, 1)
             gl == grade_present(e.answerlist, e.guesslist, 1, 1)
         IN  [guess |-> gss, grade |-> gl,
              possible |-> mark_letters(gl, pl, Len(ans), 1, Len(gss))]

\* freq[let] of get_freq_word: the count of let in the possible words, 0 for
\* a letter possibleletters rules out
RECURSIVE letter_count(_, _, _)
letter_count(possiblewords, c, k) ==
    IF k > Len(possiblewords) THEN 0
    ELSE Cardinality({p \in 1..Len(possiblewords[k]) : possiblewords[k][p] = c})
         + letter_count(possiblewords, c, k + 1)

freq(possiblewords, possibleletters, c) ==
    IF c - 97 \in 0..25 /\ ~possibleletters[c - 97] THEN 0
    ELSE letter_count(possiblewords, c, 1)

\* the score of a word: the frequencies of its letters, a repeated letter
\* counted once
RECURSIVE word_score(_, _, _, _)
word_score(possiblewords, possibleletters, w, pos) ==
    IF pos > Len(w) THEN 0
    ELSE (IF \E q \in 1..(pos - 1) : w[q] = w[pos] THEN 0
          ELSE freq(possiblewords, possibleletters, w[pos]))
         + word_score(possiblewords, possibleletters, w, pos + 1)

RECURSIVE freq_best(_, _, _, _, _)
freq_best(possiblewords, possibleletters, k, bestword, bestscore) ==
    IF k > Len(possiblewords) THEN bestword
    ELSE LET score == word_score(possiblewords, possibleletters, possiblewords[k], 1)
         IN  IF score > bestscore
             THEN freq_best(possiblewords, possibleletters, k + 1, possiblewords[k], score)
             ELSE freq_best(possiblewords, possibleletters, k + 1, bestword, bestscore)

\* the string "false", the word both strategies start from
false_word == W("f","a","l","s","e")

\* get_freq_word(allwords, possiblewords, possibleletters)
get_freq_word(allwords, possiblewords, possibleletters) ==
    freq_best(possiblewords, possibleletters, 1, false_word, -1)

\* bestscore of get_best_guess before any word is scored
InitialBestScore == 20000000

\* the inner loop of get_best_guess: for every possible answer the guess h
\* is graded on a copy of the letters and the module-level wordlist wl is
\* reduced, is_possible reading the module-level guess g
RECURSIVE guess_total(_, _, _, _, _, _, _)
guess_total(h, possiblewords, wordhash, opl, wl, g, k) ==
    IF k > Len(possiblewords) THEN 0
    ELSE Len(reduce_word_list(wl,
                 grade_word_letters(possiblewords[k], h, wordhash, opl), g))
         + guess_total(h, possiblewords, wordhash, opl, wl, g, k + 1)

RECURSIVE best_from(_, _, _, _, _, _, _, _, _)
best_from(allwords, possiblewords, wordhash, opl, wl, g, k, bestword, bestscore) ==
    IF k > Len(allwords) THEN bestword
    ELSE LET tot == guess_total(allwords[k], possiblewords, wordhash, opl, wl, g, 1)
         IN  IF tot < bestscore
             THEN best_from(allwords, possiblewords, wordhash, opl, wl, g, k + 1,
                            allwords[k], tot)
             ELSE best_from(allwords, possiblewords, wordhash, opl, wl, g, k + 1,
                            bestword, bestscore)

\* get_best_guess(allwords, possiblewords, wordhash, orig_possible_letters) of
\* wordle3stats.py; wl and g are the module-level wordlist and guess it reads.
\* Every word of allwords is in wordhash: both come from the same file.
get_best_guess(allwords, possiblewords, wordhash, opl, wl, g) ==
    best_from(allwords, possiblewords, wordhash, opl, wl, g, 1, false_word,
              InitialBestScore)

\* the list sizes that select the strategy in wordle3stats.py
FreqAbove == 60
RandomUpTo == 2

\* wordle3stats.py lines 278-283: the words the turn may guess, the empty
\* set when get_random_guess raises on an empty list
Strategy3(allwords, wl, wordhash, pl, g) ==
    IF Len(wl) > FreqAbove THEN {get_freq_word(allwords, wl, pl)}
    ELSE IF Len(wl) > RandomUpTo THEN {get_best_guess(allwords, wl, wordhash, pl, wl, g)}
    ELSE get_next_guess(wl)

\* the list sizes of get_best_guess in wordle4stats.py
FirstBelow == 3
RandomAbove == 100

\* wordle4stats.py line 249
is_hard_word(cnt, res) ==
    /\ cnt = 1
    /\ \/ res.grade[2] = ord("2") /\ res.grade[5] = ord("2")
       \/ res.grade[4] = ord("2") /\ res.grade[5] = ord("2")

\* get_best_guess of wordle4stats.py: the words it may return, the empty
\* set when possiblewords[0] raises on an empty list
Strategy4(allwords, wl, wordhash, pl, g, hard) ==
    IF Len(wl) < FirstBelow THEN (IF wl = <<>> THEN {} ELSE {wl[1]})
    ELSE IF hard THEN {compt}
    ELSE IF Len(wl) > RandomAbove THEN get_next_guess(wl)
    ELSE {get_best_guess(allwords, wl, wordhash, pl, wl, g)}

\* wordle3stats.py lines 254-257, wordle4stats.py lines 230-233
InitStrategy ==
    /\ prog \in {"wordle3stats", "wordle4stats"}
    /\ dictfile \in Dictionaries
    /\ samplelist = <<>>
    /\ origlist = load_dictionary(dictfile).wordlist
    /\ wordlist = <<>>
    /\ answer = <<>>
    /\ ai = 0 /\ gi = 0 /\ count = 0 /\ total = 0
    /\ guess = <<>>
    /\ result = NoResult
    /\ possible_letters = AllPossible
    /\ lst = <<>>
    /\ excluded = {}
    /\ word = <<>> /\ out = FALSE
    /\ pc = "for"

\* wordle3stats.py lines 260-269, wordle4stats.py lines 236-245: the next
\* answer, a freshly loaded list, the first guess "lares" graded
FirstGuess ==
    /\ prog \in {"wordle3stats", "wordle4stats"} /\ pc = "for"
    /\ ai < Len(origlist)
    /\ ai' = ai + 1
    /\ answer' = origlist[ai + 1]
    /\ wordlist' = load_dictionary(dictfile).wordlist
    /\ guess' = lares
    /\ excluded' = {}
    /\ LET r == grade_word_letters(answer', lares,
                    load_dictionary(dictfile).wordhash, AllPossible)
       IN  IF IsRaised(r)
           THEN /\ pc' = "error"
                /\ possible_letters' = AllPossible
                /\ UNCHANGED <<result, count>>
           ELSE /\ result' = r
                /\ possible_letters' = r.possible
                /\ count' = 1
                /\ pc' = "while"
    /\ UNCHANGED <<prog, dictfile, samplelist, origlist, gi, total, lst, fnvars>>

\* wordle3stats.py lines 275, 291-292: the grade is '22222', the game is over
StrategyExit ==
    /\ prog \in {"wordle3stats", "wordle4stats"} /\ pc = "while"
    /\ result.grade = FullMatch
    /\ pc' = "for"
    /\ UNCHANGED <<prog, dictfile, samplelist, origlist, wordlist, ai, gi, answer, guess,
                   result, count, total, possible_letters, lst, excluded, fnvars>>

\* wordle3stats.py lines 275-276, wordle4stats.py lines 247-248
StrategyReduce ==
    /\ prog \in {"wordle3stats", "wordle4stats"} /\ pc = "while"
    /\ result.grade # FullMatch
    /\ wordlist' = reduce_word_list(wordlist, result, guess)
    /\ excluded' = excluded \cup Dropped(wordlist, wordlist')
    /\ pc' = "choose"
    /\ UNCHANGED <<prog, dictfile, samplelist, origlist, ai, gi, answer, guess, result,
                   count, total, possible_letters, lst, fnvars>>

\* the words the strategy of the running script may choose
Choices ==
    IF prog = "wordle3stats"
    THEN Strategy3(origlist, wordlist, load_dictionary(dictfile).wordhash,
                   possible_letters, guess)
    ELSE Strategy4(origlist, wordlist, load_dictionary(dictfile).wordhash,
                   possible_letters, guess, is_hard_word(count, result))

\* wordle3stats.py lines 278-283, wordle4stats.py lines 249-250
StrategyChoose ==
    /\ prog \in {"wordle3stats", "wordle4stats"} /\ pc = "choose"
    /\ IF Choices = {}
       THEN pc' = "error" /\ guess' = guess
       ELSE pc' = "grade" /\ guess' \in Choices
    /\ UNCHANGED <<prog, dictfile, samplelist, origlist, wordlist, ai, gi, answer,
                   result, count, total, possible_letters, lst, excluded, fnvars>>

\* wordle3stats.py lines 285-289, wordle4stats.py lines 252-254
StrategyGrade ==
    /\ prog \in {"wordle3stats", "wordle4stats"} /\ pc = "grade"
    /\ LET r == grade_word_letters(answer, guess,
                    load_dictionary(dictfile).wordhash, possible_letters)
       IN  IF IsRaised(r)
           THEN /\ pc' = "error"
                /\ UNCHANGED <<result, possible_letters, count>>
           ELSE /\ result' = r
                /\ possible_letters' = r.possible
                /\ count' = count + 1
                /\ pc' = "while"
    /\ UNCHANGED <<prog, dictfile, samplelist, origlist, wordlist, ai, gi, answer, guess,
                   total, lst, excluded, fnvars>>

\* the loop over the answers is over
Finish ==
    /\ prog \in {"wordle1stats", "wordle3stats", "wordle4stats"} /\ pc = "for"
    /\ ai = Len(origlist)
    /\ pc' = "done"
    /\ UNCHANGED <<prog, dictfile, samplelist, origlist, wordlist, ai, gi, answer, guess,
                   result, count, total, possible_letters, lst, excluded, fnvars>>

----------------------------------------------------------------------------
(* wstats.py: the fitness of the sample words                              *)

\* wstats.py lines 198-203
InitWstats ==
    /\ prog = "wstats"
    /\ dictfile \in Dictionaries
    /\ samplelist \in Samples
    /\ origlist = <<>>
    /\ wordlist = load_dictionary(dictfile).wordlist
    /\ answer = <<>>
    /\ ai = 0 /\ gi = 0 /\ count = 0 /\ total = 0
    /\ guess = <<>>
    /\ result = NoResult
    /\ possible_letters = AllPossible
    /\ lst = <<>>
    /\ excluded = {}
    /\ word = <<>> /\ out = FALSE
    /\ pc = "for_guess"

\* wstats.py lines 204-205: the next sample word
SampleNext ==
    /\ prog = "wstats" /\ pc = "for_guess"
    /\ gi < Len(samplelist)
    /\ gi' = gi + 1
    /\ guess' = samplelist[gi + 1]
    /\ total' = 0
    /\ ai' = 0
    /\ pc' = "for_answer"
    /\ UNCHANGED <<prog, dictfile, samplelist, origlist, wordlist, answer, result, count,
                   possible_letters, lst, excluded, fnvars>>

\* wstats.py lines 207-211: the sample word graded against the next answer,
\* the whole list reduced by the result
SampleEval ==
    /\ prog = "wstats" /\ pc = "for_answer"
    /\ ai < Len(wordlist)
    /\ ai' = ai + 1
    /\ answer' = wordlist[ai + 1]
    /\ LET r == grade_word_hash(answer', guess, load_dictionary(dictfile).wordhash)
       IN  IF IsRaised(r)
           THEN /\ pc' = "error"
                /\ UNCHANGED <<result, lst, total>>
           ELSE /\ result' = r
                /\ lst' = reduce_word_list(wordlist, r, guess)
                /\ total' = total + Len(lst')
                /\ pc' = "for_answer"
    /\ UNCHANGED <<prog, dictfile, samplelist, origlist, wordlist, gi, guess, count,
                   possible_letters, excluded, fnvars>>

\* wstats.py line 214: the total of the sample word is printed
SamplePrint ==
    /\ prog = "wstats" /\ pc = "for_answer"
    /\ ai = Len(wordlist)
    /\ pc' = "for_guess"
    /\ UNCHANGED <<prog, dictfile, samplelist, origlist, wordlist, ai, gi, answer, guess,
                   result, count, total, possible_letters, lst, excluded, fnvars>>

\* the loop over the sample words is over
SampleFinish ==
    /\ prog = "wstats" /\ pc = "for_guess"
    /\ gi = Len(samplelist)
    /\ pc' = "done"
    /\ UNCHANGED <<prog, dictfile, samplelist, origlist, wordlist, ai, gi, answer, guess,
                   result, count, total, possible_letters, lst, excluded, fnvars>>

----------------------------------------------------------------------------
(* The scripts                                                             *)

Init == InitWordle1 \/ InitWordle1Stats \/ InitStrategy \/ InitWstats

Next ==
    \/ StatsNextAnswer \/ RandomGuess \/ Break \/ Reduce
    \/ FirstGuess \/ StrategyExit \/ StrategyReduce \/ StrategyChoose \/ StrategyGrade
    \/ Finish
    \/ SampleNext \/ SampleEval \/ SamplePrint \/ SampleFinish

Spec == Init /\ [][Next]_vars

----------------------------------------------------------------------------
(* Properties of grade_word and is_possible                                *)

Graded == prog = "fn" /\ pc \in {"fn_graded", "fn_checked"}
Checked == prog = "fn" /\ pc = "fn_checked"

\* the positions of the guess holding x that the grade marks '2' or '1'
Marked(res, x) == {i \in 1..Len(res.guess) :
    res.guess[i] = x /\ res.grade[i] \in {ord("2"), ord("1")}}

Occurrences(w, x) == {i \in 1..Len(w) : w[i] = x}

\* C1: the answer is never eliminated by the result of its own guess:
\* is_possible(answer, grade_word(answer, guess)) is True for every answer
\* and guess, answer = guess included.
C1_Soundness == (Checked /\ word = answer) => out = TRUE

\* C2: for a candidate other than the guess, is_possible(candidate,
\* grade_word(answer, guess)) is True exactly when grade_word(candidate, guess)
\* gives the same grade string as grade_word(answer, guess).
C2_Exact == (Checked /\ word # guess) =>
    (out <=> (grade_word(word, guess).grade = result.grade))

\* C4: for every letter x the number of guess positions holding x that are
\* graded '2' or '1' never exceeds the number of occurrences of x in the
\* answer; answer "abbey" with guess "bbbbb" grades exactly two positions
\* '2' or '1'.
C4_DuplicateLetters == Graded =>
    /\ \A x \in {guess[i] : i \in 1..Len(guess)} :
           Cardinality(Marked(result, x)) <= Cardinality(Occurrences(answer, x))
    /\ (answer = abbey /\ guess = bbbbb) =>
           Cardinality({i \in 1..WordLen : result.grade[i] \in {ord("2"), ord("1")}}) = 2

\* a guess with more copies of a letter than the answer has, some of them marked
C4_Witness ==
    /\ Graded
    /\ \E x \in {guess[i] : i \in 1..Len(guess)} :
          /\ Cardinality(Occurrences(guess, x)) > Cardinality(Occurrences(answer, x))
          /\ Cardinality(Marked(result, x)) = Cardinality(Occurrences(answer, x))
          /\ Cardinality(Marked(result, x)) >= 2

\* C5: grade_word(w, w) is '2' at every position.
C5_FullMatch == (Graded /\ guess = answer) => result.grade = FullMatch

C5_Witness == Graded /\ guess = answer /\ answer = abbey /\ result.grade = FullMatch

----------------------------------------------------------------------------
(* Properties of the scripts                                               *)

GameProgs == {"wordle1", "wordle1stats", "wordle3stats", "wordle4stats"}

Words(xs) == {xs[k] : k \in 1..Len(xs)}

\* every position of a grade string is '2'
AllExact(g) == g # <<>> /\ \A i \in 1..Len(g) : g[i] = ord("2")

\* the step starts a new game: the next answer is taken, the list reloaded
NewGame == ai' # ai

\* C3: in every game loop the candidate list contains the answer, initially
\* and after every call of reduce_word_list.
C3_AnswerStays == (prog \in GameProgs /\ answer # <<>>) => In(answer, wordlist)

\* the list has been reduced more than once and still holds the answer
C3_Witness ==
    /\ prog = "wordle3stats" /\ pc = "choose" /\ count >= 2
    /\ Len(wordlist) < Len(dictfile) - 1
    /\ In(answer, wordlist)

\* C6: reduce_word_list(S, r) is no longer than S and holds only words of
\* S; within a game the candidate list never grows, and a word dropped at
\* one turn is in the candidate list at no later turn.
C6_Step ==
    /\ (prog \in GameProgs /\ ~NewGame) =>
          /\ Len(wordlist') <= Len(wordlist)
          /\ Words(wordlist') \subseteq Words(wordlist)
    /\ prog \in GameProgs => Words(wordlist') \cap excluded' = {}
    /\ (prog = "wstats" /\ lst' # lst) =>
          /\ Len(lst') <= Len(wordlist)
          /\ Words(lst') \subseteq Words(wordlist)

C6_MonotonicShrink == [][C6_Step]_vars

\* words were dropped at two different turns of one game
C6_Witness ==
    /\ prog = "wordle1" /\ pc = "loop" /\ count >= 2
    /\ Cardinality(excluded) >= 3
    /\ wordlist # <<>>

\* C7: reduce_word_list(wordlist, result) returns exactly the words of
\* wordlist that is_possible accepts, in their order, and leaves the list
\* it was given unchanged.
C7_Accepts(w) == is_possible(w, result', guess')

C7_Step ==
    /\ (prog \in GameProgs /\ pc \in {"test", "while"} /\ pc' \in {"loop", "choose"}) =>
          wordlist' = SelectSeq(wordlist, C7_Accepts)
    /\ (prog = "wstats" /\ pc = "for_answer" /\ pc' = "for_answer" /\ ai' # ai) =>
          /\ lst' = SelectSeq(wordlist, C7_Accepts)
          /\ wordlist' = wordlist

C7_ReduceIsFilter == [][C7_Step]_vars

\* wstats.py has reduced a list of four words to two or more of them
C7_Witness ==
    /\ prog = "wstats" /\ pc = "for_answer" /\ ai >= 1
    /\ Len(wordlist) = 4 /\ Len(lst) >= 2
    /\ lst = SelectSeq(wordlist, LAMBDA w : is_possible(w, result, guess))

\* the calls is_possible(w, r) that the get_best_guess about to run makes:
\* every word of the module-level wordlist against the grade of every
\* dictionary word for every possible answer
BestGuessRuns ==
    /\ pc = "choose"
    /\ \/ prog = "wordle3stats" /\ Len(wordlist) > RandomUpTo /\ Len(wordlist) <= FreqAbove
       \/ /\ prog = "wordle4stats" /\ Len(wordlist) >= FirstBelow
          /\ Len(wordlist) <= RandomAbove /\ ~is_hard_word(count, result)

BestGuessCalls ==
    {<<wordlist[k], grade_word(wordlist[a], origlist[h])>> :
        k \in 1..Len(wordlist), a \in 1..Len(wordlist), h \in 1..Len(origlist)}

\* C8: is_possible(candidate, result) depends only on its two arguments:
\* a call made by get_best_guess for a hypothetical guess returns what the
\* same call returns in the game loop, where the module holds the guess of
\* the result.
C8_Pure == BestGuessRuns =>
    \A c \in BestGuessCalls :
        is_possible(c[1], c[2], guess) = is_possible(c[1], c[2], c[2].guess)

\* the scenario of C9: wordle1.py, the four-word dictionary, the answer
\* "crane", the first guess "lares", the list reduced once
C9_Scenario ==
    /\ prog = "wordle1" /\ pc = "loop" /\ count = 1
    /\ dictfile = <<lares, crane, trace, crone>>
    /\ answer = crane /\ guess = lares

\* C9 as stated: the reduction eliminates "lares" and "trace" and retains
\* "crane".
C9_Original == C9_Scenario =>
    /\ ~In(lares, wordlist) /\ ~In(trace, wordlist)
    /\ In(crane, wordlist)

\* C9 amended: the grade is 'l111s'; the reduction eliminates "lares" and
\* "crone" and retains "crane" and "trace".
C9_Amended == C9_Scenario =>
    /\ result.grade = list(<<"l","1","1","1","s">>)
    /\ wordlist = <<crane, trace>>

C9_Witness == C9_Scenario /\ wordlist = <<crane, trace>>

\* the positions of a script inside its game loop
InLoop == pc \in {"loop", "test", "while", "choose", "grade"}

\* a graded turn waits for the test of the loop
AtTest == prog \in GameProgs /\ pc \in {"test", "while"}

\* C10: the game loop ends exactly at the first turn whose grade is
\* all-Exact, which is the first turn whose guess equals the answer: it is
\* left at no other turn, it goes on after no such turn, and
\* reduce_word_list is never applied to an all-Exact result.
C10_Step ==
    /\ AtTest => (AllExact(result.grade) <=> guess = answer)
    /\ (AtTest /\ AllExact(result.grade)) =>
          /\ pc' \in {"done", "for"}
          /\ wordlist' = wordlist
    /\ (AtTest /\ ~AllExact(result.grade)) =>
          /\ pc' \in {"loop", "choose"}
          /\ wordlist' = SelectSeq(wordlist, LAMBDA w : is_possible(w, result, guess))
    /\ (prog \in GameProgs /\ InLoop /\ pc' \in {"done", "for"}) =>
          AtTest /\ AllExact(result.grade)
    /\ (prog \in {"wordle1", "wordle1stats", "wordle3stats"} /\ InLoop) => pc' # "error"

C10_LoopEnds == [][C10_Step]_vars

\* a game of wordle3stats.py is over after three guesses or more
C10_Witness ==
    /\ prog = "wordle3stats" /\ pc = "for" /\ count >= 3
    /\ AllExact(result.grade) /\ guess = answer

----------------------------------------------------------------------------
(* The return value of grade_word                                          *)

\* the dictionary hash of the running script
wordhash == load_dictionary(dictfile).wordhash

\* the script is about to call grade_word(answer, guess, wordhash, ...)
GradeCall ==
    \/ prog = "wstats" /\ pc = "for_answer" /\ ai < Len(wordlist)
    \/ prog \in {"wordle3stats", "wordle4stats"} /\ pc = "grade"

\* what that call gives
GradeCallValue ==
    IF prog = "wstats"
    THEN grade_word_hash(wordlist[ai + 1], guess, wordhash)
    ELSE grade_word_letters(answer, guess, wordhash, possible_letters)

\* C11: grade_word called with a guess that is not in the dictionary hash
\* returns a value (False) and raises no exception; called with a guess
\* that is in the hash it returns a dictionary holding the guess and the
\* grade string.
C11_ReturnsFalse == GradeCall =>
    /\ ~IsRaised(GradeCallValue)
    /\ guess \in wordhash =>
          /\ GradeCallValue.guess = guess
          /\ Len(GradeCallValue.grade) = Len(guess)

----------------------------------------------------------------------------
(* The rules of is_possible                                                *)

Exact == ord("2")
Present == ord("1")

\* the position of the guess is graded neither '2' nor '1'
Absent(res, i) == res.grade[i] \notin {Exact, Present}

\* C12: for every position i of the guess graded '1', a candidate with the
\* guessed letter at position i is rejected, whatever the grades of the
\* same letter at the other positions.
C12_PresentRule == Checked =>
    \A i \in 1..Len(guess) :
        (result.grade[i] = Present /\ word[i] = guess[i]) => out = FALSE

\* C13: for a result of grade_word and a letter x graded absent at some
\* position of the guess, every candidate is_possible accepts holds exactly
\* as many x as the guess has positions of x graded '2' or '1'.
C13_AbsentRule == (Checked /\ out) =>
    \A i \in 1..Len(guess) :
        Absent(result, i) =>
            Cardinality(Occurrences(word, guess[i]))
                = Cardinality(Marked(result, guess[i]))

\* an accepted candidate other than the answer, for a guess with a letter
\* graded absent at one position and '2' or '1' at another
C13_Witness ==
    /\ Checked /\ out /\ word # answer
    /\ \E i \in 1..Len(guess) :
          /\ Absent(result, i)
          /\ Marked(result, guess[i]) # {}
          /\ Cardinality(Occurrences(word, guess[i]))
                = Cardinality(Marked(result, guess[i]))

\* the letters of s at the positions the grade does not mark '2'
RECURSIVE Unmatched(_, _, _)
Unmatched(s, gradelist, i) ==
    IF i > Len(s) THEN <<>>
    ELSE (IF gradelist[i] = Exact THEN <<>> ELSE <<s[i]>>)
         \o Unmatched(s, gradelist, i + 1)

\* C14: all the '2' positions are checked and consumed before any other
\* position is examined: is_possible gives what the '1' and absent rules
\* give on the words without their '2' positions, so the candidate letter
\* at a '2' position neither satisfies a '1' nor triggers an absent
\* rejection, wherever the '2' position lies.
C14_ExactFirst == Checked =>
    (out <=> /\ \A i \in 1..Len(guess) :
                    result.grade[i] = Exact => word[i] = guess[i]
             /\ possible_present(Unmatched(word, result.grade, 1),
                                 Unmatched(result.grade, result.grade, 1),
                                 Unmatched(guess, result.grade, 1),
                                 Unmatched(word, result.grade, 1), 1)
             /\ word # guess)

\* an accepted candidate other than the answer whose letter at a '2'
\* position is the letter of an earlier position graded '1' or absent
C14_Witness ==
    /\ Checked /\ out /\ word # answer
    /\ \E i, j \in 1..Len(guess) :
          /\ i < j
          /\ result.grade[j] = Exact /\ result.grade[i] # Exact
          /\ guess[i] = word[j]

\* what the three passes of is_possible give: the call made while the
\* module-level guess is another word than w, so that the last line passes
Passes(w, res) == is_possible(w, res, <<>>)

\* C15: for a result of grade_word whose grade is not all '2', the guess
\* of the result as candidate is rejected by the passes themselves, so the
\* last line (word != guess, guess being the guess of the result) changes
\* the outcome only for the all-'2' grade.
C15_LastLine == Graded =>
    /\ ~AllExact(result.grade) => ~Passes(guess, result)
    /\ AllExact(result.grade) =>
          Passes(guess, result) /\ ~is_possible(guess, result, result.guess)

\* a guess that is a rearrangement of the answer: no position is absent,
\* and the guess is rejected as candidate
C15_Witness ==
    /\ Graded /\ guess # answer
    /\ \A i \in 1..Len(guess) : result.grade[i] \in {Exact, Present}
    /\ \E i \in 1..Len(guess) : result.grade[i] = Exact
    /\ ~Passes(guess, result)

----------------------------------------------------------------------------
(* grade_word and the two-pass algorithm                                   *)

\* the first unconsumed position of the answer holding c, 0 when there is none
unconsumed(c, answerlist) ==
    IF In(c, answerlist)
    THEN CHOOSE k \in 1..Len(answerlist) :
             answerlist[k] = c /\ \A h \in 1..(k - 1) : answerlist[h] # c
    ELSE 0

\* pass 2 of the algorithm: for each guess position i not marked in pass 1,
\* left to right, an unconsumed answer position holding the guessed letter
\* is looked for; if there is one the position is marked '1' and the answer
\* position consumed, otherwise the position is absent (the grade string
\* keeps the guessed letter there)
RECURSIVE two_pass_present(_, _, _)
two_pass_present(answerlist, gradelist, i) ==
    IF i > Len(gradelist) THEN gradelist
    ELSE IF gradelist[i] = Exact THEN two_pass_present(answerlist, gradelist, i + 1)
    ELSE LET k == unconsumed(gradelist[i], answerlist)
         IN  IF k = 0 THEN two_pass_present(answerlist, gradelist, i + 1)
             ELSE two_pass_present([answerlist EXCEPT ![k] = 0],
                                   [gradelist EXCEPT ![i] = Present], i + 1)

\* pass 1 of the algorithm: the positions where guess and answer agree are
\* marked '2' and consumed in the answer
two_pass_exact(ans, gss) ==
    [answerlist |-> [i \in 1..Len(ans) |-> IF ans[i] = gss[i] THEN 0 ELSE ans[i]],
     gradelist  |-> [i \in 1..Len(gss) |-> IF ans[i] = gss[i] THEN Exact ELSE gss[i]]]

two_pass_grade(ans, gss) ==
    two_pass_present(two_pass_exact(ans, gss).answerlist,
                     two_pass_exact(ans, gss).gradelist, 1)

\* C16: grade_word gives the grade of the two-pass algorithm for every
\* answer and guess of equal length: the second loop over the answer
\* positions marks what the pass over the unmarked guess positions marks,
\* the '1' marks on the leftmost occurrences of a letter that are not '2'.
C16_TwoPass == Graded =>
    /\ result.grade = two_pass_grade(answer, guess)
    /\ \A i, j \in 1..Len(guess) :
          (i < j /\ guess[i] = guess[j] /\ result.grade[j] = Present) =>
              result.grade[i] \in {Exact, Present}

\* a letter of the guess marked '1' at one position and absent at a later
\* one, the answer having further letters marked '1'
C16_Witness ==
    /\ Graded
    /\ \E i, j \in 1..Len(guess) :
          /\ i < j /\ guess[i] = guess[j]
          /\ result.grade[i] = Present /\ Absent(result, j)
    /\ Cardinality({i \in 1..Len(guess) : result.grade[i] = Present}) >= 2
    /\ result.grade = two_pass_grade(answer, guess)

----------------------------------------------------------------------------
(* The letters ruled out in wordle3stats.py and wordle4stats.py            *)

StrategyProgs == {"wordle3stats", "wordle4stats"}

\* the letters possible_letters rules out
RuledOut == {97 + k : k \in {h \in 0..25 : ~possible_letters[h]}}

\* C17: in versions 3 and 4, after any sequence of grade_word calls of a
\* game, no letter that possible_letters rules out occurs in the answer.
C17_LettersSound == (prog \in StrategyProgs /\ answer # <<>>) =>
    \A c \in RuledOut : ~In(c, answer)

----------------------------------------------------------------------------
(* The choice of the strategy in wordle3stats.py                           *)

\* the list size the docstring of wordle3stats.py names
DocFreqAbove == 50

\* C18: in wordle3stats.py, at every turn after the first guess "lares",
\* get_freq_word chooses the guess when more than 50 candidate words
\* remain and get_best_guess chooses it when 50 or fewer remain.
C18_Strategy == (prog = "wordle3stats" /\ pc = "choose") =>
    Choices = IF Len(wordlist) > DocFreqAbove
              THEN {get_freq_word(origlist, wordlist, possible_letters)}
              ELSE {get_best_guess(origlist, wordlist, wordhash, possible_letters,
                                   wordlist, guess)}

----------------------------------------------------------------------------
(* The end of the random-guess game                                        *)

RandomProgs == {"wordle1", "wordle1stats"}

\* a guess is about to be drawn
AtDraw == prog \in RandomProgs /\ pc = "loop"

\* a drawn guess has been graded
AtGrade == prog \in RandomProgs /\ pc = "test"

C19_Step ==
    /\ AtDraw =>
          /\ wordlist # <<>>
          /\ count + Len(wordlist) <= Len(dictfile)
          /\ pc' = "test" /\ In(guess', wordlist)
    /\ (AtGrade /\ ~AllExact(result.grade)) =>
          /\ In(guess, wordlist) /\ ~In(guess, wordlist')
          /\ Len(wordlist') < Len(wordlist)
          /\ pc' = "loop"
    /\ (AtGrade /\ count = Len(dictfile)) => AllExact(result.grade)
    /\ (AtGrade /\ AllExact(result.grade)) => pc' \in {"done", "for"}
    /\ prog \in RandomProgs => (count' <= Len(dictfile) /\ pc' # "error")

\* C19: in wordle1.py and wordle1stats.py, the dictionary being free of
\* duplicates and holding the answer, every turn that is not a full match
\* removes at least the guessed word from the candidate list; the list
\* strictly shrinks, is not empty when a guess is drawn, and the all-'2'
\* grade is reached after at most as many guesses as the dictionary has
\* words: the guess number Len(dictionary), if the game gets there, is
\* graded all '2', and no turn stops the script before.
C19_Terminates == [][C19_Step]_vars

\* a game that took as many guesses as the dictionary has words
C19_Witness ==
    /\ prog = "wordle1" /\ pc = "done"
    /\ Len(dictfile) >= 3 /\ count = Len(dictfile)
    /\ AllExact(result.grade)

====
